---- MODULE Spec2Model ----
(***************************************************************************)
(* Wager acceptance (POST /api/wagers) and settlement                      *)
(* (POST /api/wagers/[id]/mark-result) of the sports-betting tracker, over *)
(* a PostgreSQL store driven through Prisma interactive transactions at    *)
(* the ReadCommitted isolation level, with the odds sync                   *)
(* (POST /api/odds/sync) that creates leagues, events, markets and lines,  *)
(* user creation (POST /api/users), and the payout calculator taken on its *)
(* own.                                                                    *)
(*                                                                         *)
(* Every request is a call slot.  A call takes one step per statement of  *)
(* its handler that reads committed rows or takes a row lock (statements   *)
(* that only insert rows private to the transaction are part of the step   *)
(* before them); rows it inserts or updates stay private to its            *)
(* transaction until the commit step, an UPDATE takes the row lock and     *)
(* waits for the lock's holder, and a thrown error rolls the transaction   *)
(* back.  The request and the response are on record for the call that     *)
(* completed last.                                                         *)
(***************************************************************************)
EXTENDS Integers, FiniteSets, Sequences, TLC

VARIABLES
    users,      \* table User: id -> [balanceCents]
    leagues,    \* table League: id -> [name]
    events,     \* table Event: id -> [leagueId, homeTeam, awayTeam, startsAt, status]
    markets,    \* table Market: id -> [eventId, type]
    lines,      \* table Line: id -> [marketId, selectionKey, point, price, capturedAt]
    wagers,     \* table Wager (committed rows): id -> row
    ledger,     \* table LedgerEntry (committed rows): set of rows
    rowLock,    \* row locks held by open transactions: set of [table, id, tx]
    pc,         \* per call: the statement the handler is at
    req,        \* per call: the validated request
    local,      \* per call: the handler's local variables and uncommitted writes
    response,   \* per call: the HTTP response once the call is done
    calc        \* a call of calculatePayout on its own: arguments and result

vars == <<users, leagues, events, markets, lines, wagers, ledger, rowLock, pc, req, local,
          response, calc>>
db == <<users, wagers, ledger>>
catalog == <<leagues, events, markets, lines>>

----------------------------------------------------------------------------
(* Bounds of the model *)

\* Number of request slots: calls of placeWager, settleWager, odds sync and
\* user creation.
MaxCalls == 4
\* Number of request slots of the calls taken on the catalog that a first
\* odds sync has created.
MaxWagerCalls == 3
\* Number of placeWager calls taken on the catalog with events that are
\* under way or over.
MaxGradedCalls == 2
\* Largest stake, and largest odds in absolute value, of the calls of
\* calculatePayout taken on their own.
MaxStakeCents == 110
MaxOdds == 200

(* Program constants *)

\* balanceCents of a user created without a balance.
DefaultBalanceCents == 10000
\* balanceCents of a seeded demo user.
SeedBalanceCents == 20000
\* Minutes before the start of an event at which betting closes.
BufferMinutes == 5
\* Milliseconds per minute, the divisor of minutesUntilStart.
MsPerMinute == 60000

\* The user a wager falls back to when the request names none.
DEFAULT_USER_ID == "00000000-0000-0000-0000-000000000000"
\* A request without x-user-id header and without body.userId (or with an
\* empty one): `headerUserId || body.userId` is falsy.
NoUserId == ""

Procs == 1..MaxCalls

\* The users the seed script upserts: Adit, Arvind and Vikas.
SeedUserIds == {"adit", "arvind", "vikas"}

\* An id that is no wager's.
UnknownWagerId == -1

\* The event of a line.
EventOfLine(lineId) == events[markets[lines[lineId].marketId].eventId]

\* The lines of the events that are no longer SCHEDULED.
ClosedLines == {l \in DOMAIN lines : EventOfLine(l).status # "SCHEDULED"}

\* Request inputs of POST /api/wagers: line1 (the first line an odds sync
\* creates) and line9 (no such line); a stake the schema refuses, a stake
\* below the seeded balance and a stake equal to it; a seeded user, an id
\* that is no user's, and no user id at all; and, on every line of an event
\* that is no longer SCHEDULED, a stake below the seeded balance and a stake
\* above it.
PlaceInputs ==
    {[userId |-> "adit", lineId |-> "line1", stakeCents |-> s] : s \in {0, 5000, 20000}}
    \cup {[userId |-> u, lineId |-> "line1", stakeCents |-> 5000] : u \in {NoUserId, "nobody"}}
    \cup {[userId |-> "nobody", lineId |-> "line9", stakeCents |-> 5000]}
    \cup {[userId |-> "adit", lineId |-> l, stakeCents |-> s] :
            l \in ClosedLines, s \in {5000, 25000}}
\* Results a grading request may carry: the four outcomes, and one that is
\* none of them.
ResultInputs == {"WON", "LOST", "PUSH", "VOID", "PENDING"}
\* balanceCents of a request of POST /api/users that gives one.
BalanceInputs == {-1, 10000}
\* Clock readings (ms) of `new Date()`: with the events starting at 600000,
\* six minutes, exactly five minutes and four minutes before the start, and
\* one minute after it.
NowInputs == {240000, 300000, 360000, 660000}

NoPoint == "null"

\* No answer of the Odds API: the fetch fails or the answer is not ok.
NoFeed ==
    [ok |-> FALSE, sportTitle |-> "", homeTeam |-> "", awayTeam |-> "", commenceTime |-> 0,
     marketKey |-> "", outcomeName |-> "", priceTenths |-> 0, point |-> NoPoint,
     lastUpdate |-> 0]

\* The quote of the Odds API for one game (sport title, home team, away
\* team and start) by one bookmaker, for one market (spreads) and one
\* outcome (the home team), at a price given in tenths with a point and the
\* time of the quote: -110.0 with the point -3.5 at first, and 150.0 with
\* the point 0 once a line has been captured.
Quote(captured) ==
    [ok |-> TRUE, sportTitle |-> "NFL", homeTeam |-> "Chiefs", awayTeam |-> "Bills",
     commenceTime |-> 600000, marketKey |-> "spreads", outcomeName |-> "Chiefs",
     priceTenths |-> IF captured = 0 THEN -1100 ELSE 1500,
     point |-> IF captured = 0 THEN "-3.5" ELSE "0",
     lastUpdate |-> IF captured = 0 THEN 60000 ELSE 120000]

\* What the Odds API answers to an odds sync: no answer, or the quote.
FeedInputs == {NoFeed, Quote(Cardinality(DOMAIN lines))}

----------------------------------------------------------------------------
(* Rows and null values *)

NoWager ==
    [id |-> -1, userId |-> "", lineId |-> "", stakeCents |-> 0,
     acceptedPoint |-> NoPoint, acceptedPrice |-> 0, status |-> "NONE"]

NoEntry ==
    [id |-> -1, userId |-> "", wagerId |-> -1, type |-> "NONE", amountCents |-> 0]

NoLine ==
    [id |-> "", point |-> NoPoint, price |-> 0]

NoRequest ==
    [op |-> "none", userId |-> "", lineId |-> "", stakeCents |-> 0,
     wagerId |-> -1, result |-> ""]

NoLocal ==
    [now |-> 0, line |-> NoLine, wager |-> NoWager,
     ledgerEntry |-> NoEntry, balanceChange |-> 0,
     updatedUser |-> "", balanceDelta |-> 0,
     feed |-> NoFeed, league |-> "", event |-> "", market |-> ""]

NoResponse ==
    [http |-> 0, code |-> "", message |-> "", amountCents |-> 0]

NoCalc ==
    [stakeCents |-> 0, americanOdds |-> 0, returned |-> FALSE, payout |-> 0,
     payoutPost |-> 0, payoutGet |-> 0]

\* A value thrown and caught: an Error with its message, or a value that is
\* no Error.
Error(message) == [isError |-> TRUE, message |-> message]
NotAnError == [isError |-> FALSE, message |-> ""]

\* The errors with which a statement sent to the database may be rejected:
\* the connection is lost or the transaction has timed out.
StatementErrors == {Error("Transaction failed")}

\* s contains sub: String.prototype.includes.
Includes(s, sub) ==
    \E i \in 1..(Len(s) - Len(sub) + 1) : SubSeq(s, i, i + Len(sub) - 1) = sub

----------------------------------------------------------------------------
(* Initial state: the database after the migrations and the seed script,   *)
(* which upserts three users with a balance of 20000 and nothing else; no  *)
(* request in flight.                                                      *)

Init ==
    /\ users = [u \in SeedUserIds |-> [balanceCents |-> SeedBalanceCents]]
    /\ wagers = <<>>
    /\ ledger = {}
    /\ leagues = <<>>
    /\ events = <<>>
    /\ markets = <<>>
    /\ lines = <<>>
    /\ rowLock = {}
    /\ pc = [p \in Procs |-> "idle"]
    /\ req = [p \in Procs |-> NoRequest]
    /\ local = [p \in Procs |-> NoLocal]
    /\ response = [p \in Procs |-> NoResponse]
    /\ calc = NoCalc

----------------------------------------------------------------------------
(* Payout calculator *)

\* The rounding with a bug: Math.floor instead of Math.round.
MathFloor(n, d) == n \div d

\* Math.round(n / d) for d > 0: the nearest integer, halves towards +infinity.
MathRound(n, d) == (2 * n + d) \div (2 * d)

\* What a division by zero yields: Math.round(Infinity) is Infinity, which
\* is no value of an INTEGER column.
Infinity == 2147483647

Abs(x) == IF x < 0 THEN -x ELSE x

calculatePayout(stakeCents, americanOdds) ==
    IF americanOdds > 0
    THEN MathRound(stakeCents * americanOdds + 100 * stakeCents, 100)
    ELSE IF americanOdds = 0
         THEN Infinity
         ELSE MathRound(stakeCents * 100 + Abs(americanOdds) * stakeCents,
                        Abs(americanOdds))

\* The copy of calculatePayout in POST /api/wagers (potentialPayoutCents of
\* the response).
calculatePayoutPost(stakeCents, americanOdds) ==
    IF americanOdds > 0
    THEN MathRound(stakeCents * americanOdds + 100 * stakeCents, 100)
    ELSE IF americanOdds = 0
         THEN Infinity
         ELSE MathRound(stakeCents * 100 + Abs(americanOdds) * stakeCents,
                        Abs(americanOdds))

\* The copy in GET /api/wagers with a bug: Math.floor instead of Math.round.
calculatePayoutGetFloor(stakeCents, americanOdds) ==
    IF americanOdds > 0
    THEN MathFloor(stakeCents * americanOdds + 100 * stakeCents, 100)
    ELSE IF americanOdds = 0
         THEN Infinity
         ELSE MathFloor(stakeCents * 100 + Abs(americanOdds) * stakeCents,
                        Abs(americanOdds))

\* The copy of calculatePayout in GET /api/wagers (potentialPayoutCents of
\* each wager listed).
calculatePayoutGet(stakeCents, americanOdds) ==
    IF americanOdds > 0
    THEN MathRound(stakeCents * americanOdds + 100 * stakeCents, 100)
    ELSE IF americanOdds = 0
         THEN Infinity
         ELSE MathRound(stakeCents * 100 + Abs(americanOdds) * stakeCents,
                        Abs(americanOdds))

\* Arguments of the calls of calculatePayout taken on their own: every stake
\* from 1 to MaxStakeCents and the stake 5000, at every odds from -MaxOdds to
\* MaxOdds.
StakeInputs == 1..MaxStakeCents \cup {5000}
OddsInputs == -MaxOdds..MaxOdds

\* No request and no row: only calculatePayout is called, on any arguments.
PayoutInit ==
    /\ calc \in {[NoCalc EXCEPT !.stakeCents = s, !.americanOdds = o] :
                   s \in StakeInputs, o \in OddsInputs}
    /\ users = <<>> /\ leagues = <<>> /\ events = <<>> /\ markets = <<>> /\ lines = <<>>
    /\ wagers = <<>> /\ ledger = {} /\ rowLock = {}
    /\ pc = [p \in Procs |-> "idle"]
    /\ req = [p \in Procs |-> NoRequest]
    /\ local = [p \in Procs |-> NoLocal]
    /\ response = [p \in Procs |-> NoResponse]

\* Each of the three copies of calculatePayout is called on the arguments:
\* the call evaluates the function body, which has no throw statement, and
\* returns its value.
CallCalculatePayout ==
    /\ ~calc.returned
    /\ calc' = [calc EXCEPT
                  !.returned = TRUE,
                  !.payout = calculatePayout(calc.stakeCents, calc.americanOdds),
                  !.payoutPost = calculatePayoutPost(calc.stakeCents, calc.americanOdds),
                  !.payoutGet = calculatePayoutGet(calc.stakeCents, calc.americanOdds)]
    /\ UNCHANGED <<db, catalog, rowLock, pc, req, local, response>>

PayoutNext == CallCalculatePayout

PayoutSpec == PayoutInit /\ [][PayoutNext]_vars


----------------------------------------------------------------------------
(* Transactions *)

\* The row locks with a bug: the end of a transaction releases none.
NoLocksOf(p) == {}

\* The row locks of the transaction of call p.
LocksOf(p) == {k \in rowLock : k.tx = p}

\* Another open transaction holds the lock of the row: an UPDATE of the row
\* waits until that transaction commits or rolls back.
UserLockedByOther(p, userId) ==
    \E k \in rowLock : k.table = "User" /\ k.userId = userId /\ k.tx # p

WagerLockedByOther(p, wagerId) ==
    \E k \in rowLock : k.table = "Wager" /\ k.wagerId = wagerId /\ k.tx # p

UserLock(p, userId) ==
    [table |-> "User", userId |-> userId, wagerId |-> UnknownWagerId, tx |-> p]

WagerLock(p, wagerId) ==
    [table |-> "Wager", userId |-> "", wagerId |-> wagerId, tx |-> p]

\* The call is done: the handler answers r to the request and its
\* transaction, if any, is over.  The request and the response of the call
\* that completed before it go off the record.
Done(p, request, r) ==
    /\ pc' = [pc EXCEPT ![p] = "done"]
    /\ req' = [q \in Procs |->
                 IF q = p THEN request
                 ELSE IF pc[q] = "done" THEN NoRequest ELSE req[q]]
    /\ response' = [q \in Procs |-> IF q = p THEN r ELSE NoResponse]
    /\ local' = [local EXCEPT ![p] = NoLocal]

\* Rollback with a bug: the ledger entry was created outside the transaction
\* (prisma.ledgerEntry.create instead of tx.ledgerEntry.create) and survives.
RollbackKeepsEntry(p) ==
    /\ rowLock' = rowLock \ LocksOf(p)
    /\ ledger' = IF local[p].ledgerEntry.type = "NONE" THEN ledger
                 ELSE ledger \cup {local[p].ledgerEntry}
    /\ UNCHANGED <<users, wagers, catalog>>

\* The transaction callback threw: prisma.$transaction rolls back, so none
\* of the transaction's writes reaches the tables and its locks are released.
Rollback(p) ==
    /\ rowLock' = rowLock \ LocksOf(p)
    /\ UNCHANGED <<db, catalog>>

----------------------------------------------------------------------------
(* POST /api/users *)

\* The next call slot: slots are taken in order.
Idle(p) == pc[p] = "idle" /\ (\A q \in Procs : q < p => pc[q] # "idle")

createUserSchema(given, balanceCents) == (~given) \/ balanceCents >= 0

\* The id of the next user created: user1, user2, ...
NewUserId ==
    "user" \o ToString(Cardinality(DOMAIN users \ SeedUserIds) + 1)

\* The errors with which prisma.user.create may be rejected: the unique
\* index on email (the email is a random UUID), or the database fails.
CreateUserErrors ==
    {Error("Unique constraint failed on the fields: (email)"),
     Error("Cannot reach database server")}

\* The catch block of POST /api/users.
createUserCatch(error) ==
    IF error.isError /\ Includes(error.message, "Unique constraint")
    THEN [http |-> 409, code |-> "USER_EXISTS",
          message |-> "A user with this email already exists", amountCents |-> 0]
    ELSE [http |-> 500, code |-> "CREATE_USER_ERROR",
          message |-> "Failed to create user", amountCents |-> 0]

\* The body is validated (balanceCents is optional); prisma.user.create
\* then inserts the user with the balance given, or 10000, and nothing
\* else; when the statement is rejected no user is added.
CreateUser(p) ==
    \E given \in BOOLEAN, balanceCents \in BalanceInputs :
        LET request == [NoRequest EXCEPT !.op = "createUser"] IN
        /\ Idle(p)
        /\ UNCHANGED <<catalog, wagers, ledger, rowLock, calc>>
        /\ IF ~createUserSchema(given, balanceCents)
           THEN /\ Done(p, request, [http |-> 400, code |-> "VALIDATION_ERROR",
                                     message |-> "Invalid user data", amountCents |-> 0])
                /\ UNCHANGED users
           ELSE \/ \E error \in CreateUserErrors :
                     /\ Done(p, request, createUserCatch(error))
                     /\ UNCHANGED users
                \/ /\ users' = users @@
                         (NewUserId :> [balanceCents |-> IF given THEN balanceCents
                                                         ELSE DefaultBalanceCents])
                   /\ Done(p, request, [http |-> 201, code |-> "OK",
                                        message |-> "User created successfully",
                                        amountCents |-> 0])

----------------------------------------------------------------------------
(* POST /api/wagers: placeWager *)

createWagerSchema(stakeCents) == stakeCents >= 1

\* The catch block: the response for the value thrown.  Only the two
\* BETTING_CLOSED errors answer with the text thrown.
placeWagerCatch(error) ==
    IF error.isError /\ error.message = "Line not found"
    THEN [http |-> 404, code |-> "LINE_NOT_FOUND",
          message |-> "The specified betting line does not exist", amountCents |-> 0]
    ELSE IF error.isError /\ error.message = "User not found"
    THEN [http |-> 404, code |-> "USER_NOT_FOUND",
          message |-> "User does not exist", amountCents |-> 0]
    ELSE IF error.isError /\ error.message = "Insufficient balance"
    THEN [http |-> 400, code |-> "INSUFFICIENT_BALANCE",
          message |-> "User does not have enough balance for this wager",
          amountCents |-> 0]
    ELSE IF error.isError /\ error.message \in {"Event is no longer open for betting",
                                                "Event starts too soon to place bets"}
    THEN [http |-> 400, code |-> "BETTING_CLOSED", message |-> error.message,
          amountCents |-> 0]
    ELSE [http |-> 500, code |-> "INTERNAL_ERROR", message |-> "Failed to process wager",
          amountCents |-> 0]

\* A throw inside the transaction callback of placeWager.
PlaceThrow(p, request, error) ==
    /\ Rollback(p)
    /\ Done(p, request, placeWagerCatch(error))

\* minutesUntilStart < 5 for the event's start and the clock reading (ms).
StartsTooSoon(startsAt, now) == (startsAt - now) < BufferMinutes * MsPerMinute

\* The status check with a bug: betting stays open while the event is LIVE.
BettingOpenOrLive(status) == status \in {"SCHEDULED", "LIVE"}

\* The event is open for betting: line.market.event.status is "SCHEDULED".
BettingOpen(status) == status = "SCHEDULED"

\* The checks on the line read with a bug: the start-time check comes before
\* the status check.
LineCheckBufferFirst(lineId, now) ==
    IF lineId \notin DOMAIN lines
    THEN "Line not found"
    ELSE LET event == EventOfLine(lineId)
         IN IF StartsTooSoon(event.startsAt, now)
            THEN "Event starts too soon to place bets"
            ELSE IF ~BettingOpen(event.status)
                 THEN "Event is no longer open for betting"
                 ELSE ""

\* The error of the checks on the line read, "" when they pass.
LineCheck(lineId, now) ==
    IF lineId \notin DOMAIN lines
    THEN "Line not found"
    ELSE LET event == EventOfLine(lineId)
         IN IF ~BettingOpen(event.status)
            THEN "Event is no longer open for betting"
            ELSE IF StartsTooSoon(event.startsAt, now)
                 THEN "Event starts too soon to place bets"
                 ELSE ""

\* The fallback with a bug: a request that names no user is booked on a
\* seeded user.
effectiveUserIdSeeded(userId) == IF userId # NoUserId THEN userId ELSE "vikas"

\* userId || "00000000-0000-0000-0000-000000000000"
effectiveUserId(userId) == IF userId # NoUserId THEN userId ELSE DEFAULT_USER_ID

\* The row of tx.wager.create for the line read.
NewWager(p, in, line) ==
    [id |-> p,
     userId |-> effectiveUserId(in.userId),
     lineId |-> in.lineId,
     stakeCents |-> in.stakeCents,
     acceptedPoint |-> line.point,
     acceptedPrice |-> line.price,
     status |-> "PENDING"]

\* The stake entry with a bug: tx.ledgerEntry.create is left out.
NoStakeEntry(p, in) == NoEntry

\* The row of tx.ledgerEntry.create for the stake: a debit.
StakeEntry(p, in) ==
    [id |-> p, userId |-> effectiveUserId(in.userId), wagerId |-> p,
     type |-> "WAGER_STAKE", amountCents |-> -in.stakeCents]

\* tx.wager.create, then tx.ledgerEntry.create: both rows are private to the
\* transaction until it commits.  Wager_userId_fkey rejects an owner that is
\* no row of User.  The balance update follows only `if (userId)`.  The
\* clock reading is not used again.
PlaceCreate(p, in, line) ==
    IF effectiveUserId(in.userId) \notin DOMAIN users
    THEN PlaceThrow(p, in, Error("Foreign key constraint violated: Wager_userId_fkey"))
    ELSE /\ local' = [local EXCEPT ![p].now = 0,
                                   ![p].line = line,
                                   ![p].wager = NewWager(p, in, line),
                                   ![p].ledgerEntry = StakeEntry(p, in)]
         /\ pc' = [pc EXCEPT ![p] =
                     IF in.userId # NoUserId THEN "place_updateUser" ELSE "place_commit"]
         /\ req' = [req EXCEPT ![p] = in]
         /\ UNCHANGED <<db, catalog, rowLock, response>>

\* The line as the handler holds it.
LineRead(lineId) ==
    [id |-> lineId, point |-> lines[lineId].point, price |-> lines[lineId].price]

\* The request is parsed and validated; a valid one opens the transaction,
\* whose first statement is tx.line.findUnique (with market and event),
\* followed by the checks on the line; the statement may be rejected.
\* Without a userId the handler goes straight on to create the wager and
\* its stake entry.
PlaceStart(p) ==
    \E in \in PlaceInputs :
        LET request == [op |-> "placeWager", userId |-> in.userId, lineId |-> in.lineId,
                        stakeCents |-> in.stakeCents, wagerId |-> UnknownWagerId,
                        result |-> ""]
        IN
        /\ Idle(p)
        /\ UNCHANGED calc
        /\ IF ~createWagerSchema(in.stakeCents)
           THEN /\ Done(p, request, [http |-> 400, code |-> "INVALID_REQUEST",
                                     message |-> "Validation failed", amountCents |-> 0])
                /\ UNCHANGED <<db, catalog, rowLock>>
           ELSE \/ \E error \in StatementErrors : PlaceThrow(p, request, error)
                \/ \E now \in NowInputs :
                     IF LineCheck(in.lineId, now) # ""
                     THEN PlaceThrow(p, request, Error(LineCheck(in.lineId, now)))
                     ELSE IF in.userId # NoUserId
                     THEN /\ local' = [local EXCEPT ![p].now = now,
                                                    ![p].line = LineRead(in.lineId)]
                          /\ pc' = [pc EXCEPT ![p] = "place_findUser"]
                          /\ req' = [req EXCEPT ![p] = request]
                          /\ UNCHANGED <<db, catalog, rowLock, response>>
                     ELSE PlaceCreate(p, request, LineRead(in.lineId))

\* The balance check with a bug: a stake equal to the balance is refused.
InsufficientBalanceOrEqual(balanceCents, stakeCents) == balanceCents <= stakeCents

\* The balance check: the stake the balance read does not cover.
InsufficientBalance(balanceCents, stakeCents) == balanceCents < stakeCents

\* tx.user.findUnique and the checks on the user (a userId was given); the
\* handler then creates the wager and its stake entry.
PlaceFindUser(p) ==
    /\ pc[p] = "place_findUser"
    /\ UNCHANGED calc
    /\ LET userId == req[p].userId IN
       IF userId \notin DOMAIN users
       THEN PlaceThrow(p, req[p], Error("User not found"))
       ELSE IF InsufficientBalance(users[userId].balanceCents, req[p].stakeCents)
       THEN PlaceThrow(p, req[p], Error("Insufficient balance"))
       ELSE PlaceCreate(p, req[p], local[p].line)

\* The balance update with a bug: increment instead of decrement.
StakeDeltaIncrement(stakeCents) == stakeCents

\* The amount tx.user.update adds to the balance: decrement: stakeCents.
StakeDelta(stakeCents) == -stakeCents

\* tx.user.update, balanceCents: { decrement: stakeCents }.  The UPDATE
\* waits for the row lock, holds it until the transaction ends, and applies
\* to the latest committed balance.
PlaceUpdateUser(p) ==
    /\ pc[p] = "place_updateUser"
    /\ UNCHANGED calc
    /\ ~UserLockedByOther(p, req[p].userId)
    /\ rowLock' = rowLock \cup {UserLock(p, req[p].userId)}
    /\ local' = [local EXCEPT ![p].updatedUser = req[p].userId,
                              ![p].balanceDelta = StakeDelta(req[p].stakeCents)]
    /\ pc' = [pc EXCEPT ![p] = "place_commit"]
    /\ UNCHANGED <<db, catalog, req, response>>

\* The commit with a bug: the entry replaces the entries the wager already
\* has (an upsert on wagerId instead of a create).
LedgerAfterCommitReplacing(p) ==
    IF local[p].ledgerEntry = NoEntry
    THEN ledger
    ELSE {e \in ledger : e.wagerId # local[p].ledgerEntry.wagerId}
           \cup {local[p].ledgerEntry}

\* The ledger once the transaction's tx.ledgerEntry.create, if it made one,
\* is committed: the new row is added to the rows there are.
LedgerAfterCommit(p) ==
    IF local[p].ledgerEntry = NoEntry
    THEN ledger
    ELSE ledger \cup {local[p].ledgerEntry}

\* The commit with a bug: the balance update is lost.
ApplyBalanceToNone(p) == users

\* The balances once the transaction's balance update is committed.
ApplyBalance(p) ==
    IF local[p].updatedUser = ""
    THEN users
    ELSE [users EXCEPT ![local[p].updatedUser].balanceCents = @ + local[p].balanceDelta]

\* The callback returns the wager: the transaction commits and the handler
\* answers 201 with the potential payout.
PlaceCommit(p) ==
    /\ pc[p] = "place_commit"
    /\ UNCHANGED calc
    /\ wagers' = wagers @@ (local[p].wager.id :> local[p].wager)
    /\ ledger' = LedgerAfterCommit(p)
    /\ users' = ApplyBalance(p)
    /\ rowLock' = rowLock \ LocksOf(p)
    /\ Done(p, req[p],
            [http |-> 201, code |-> "OK", message |-> "Wager placed successfully",
             amountCents |-> calculatePayoutPost(local[p].wager.stakeCents,
                                                 local[p].wager.acceptedPrice)])
    /\ UNCHANGED catalog

\* A statement of the open transaction is rejected (connection lost,
\* transaction timeout): the error reaches the catch block like any other.
PlaceFail(p) ==
    \E error \in StatementErrors :
        /\ pc[p] \in {"place_findUser", "place_updateUser", "place_commit"}
        /\ UNCHANGED calc
        /\ PlaceThrow(p, req[p], error)

----------------------------------------------------------------------------
(* POST /api/wagers/[id]/mark-result: settleWager *)

TerminalStatuses == {"WON", "LOST", "PUSH", "VOID"}

\* The schema with a bug: every value of the WagerStatus enum is accepted.
markResultSchemaAnyStatus(result) == result \in {"PENDING", "WON", "LOST", "PUSH", "VOID"}

markResultSchema(result) == result \in {"WON", "LOST", "PUSH", "VOID"}

AlreadySettledMessage(status) == "Wager is already settled with status: " \o status

\* The catch block: the response for the value thrown.
settleWagerCatch(error) ==
    IF error.isError /\ error.message = "Wager not found"
    THEN [http |-> 404, code |-> "WAGER_NOT_FOUND",
          message |-> "The specified wager does not exist", amountCents |-> 0]
    ELSE IF error.isError /\ Includes(error.message, "already settled")
    THEN [http |-> 409, code |-> "WAGER_ALREADY_SETTLED", message |-> error.message,
          amountCents |-> 0]
    ELSE IF error.isError
    THEN [http |-> 422, code |-> "BUSINESS_LOGIC_ERROR", message |-> error.message,
          amountCents |-> 0]
    ELSE [http |-> 500, code |-> "INTERNAL_SERVER_ERROR",
          message |-> "An unexpected error occurred while marking the wager result",
          amountCents |-> 0]

\* A throw inside the transaction callback of settleWager.
SettleThrow(p, request, error) ==
    /\ Rollback(p)
    /\ Done(p, request, settleWagerCatch(error))

\* Request inputs of POST /api/wagers/[id]/mark-result: every result for
\* the id of a committed wager; and WON for the id of a wager that an open
\* placeWager call is creating and for an id that is no wager's.
SettleInputs ==
    {[wagerId |-> w, result |-> r] : w \in DOMAIN wagers, r \in ResultInputs}
    \cup {[wagerId |-> w, result |-> "WON"] :
            w \in {q \in Procs : req[q].op = "placeWager" /\ pc[q] # "done"}
                  \cup {UnknownWagerId}}

\* The status check with a bug: a LOST wager may be graded again.
IsPendingOrLost(status) == status \in {"PENDING", "LOST"}

\* The check that lets a settlement go on: the wager read is PENDING.
IsPending(status) == status = "PENDING"

\* The error of the checks on the wager read, "" when they pass.
WagerCheck(wagerId) ==
    IF wagerId \notin DOMAIN wagers
    THEN "Wager not found"
    ELSE IF ~IsPending(wagers[wagerId].status)
         THEN AlreadySettledMessage(wagers[wagerId].status)
         ELSE ""

\* The request is parsed and validated; a valid one opens the transaction,
\* whose first statement is tx.wager.findUnique, followed by the checks on
\* the committed row it reads; the statement may be rejected.
SettleStart(p) ==
    \E in \in SettleInputs :
      LET request == [op |-> "settleWager", userId |-> "", lineId |-> "",
                      stakeCents |-> 0, wagerId |-> in.wagerId, result |-> in.result]
      IN
        /\ Idle(p)
        /\ UNCHANGED calc
        /\ IF ~markResultSchema(in.result)
           THEN /\ Done(p, request, [http |-> 400, code |-> "INVALID_REQUEST",
                                     message |-> "Validation failed", amountCents |-> 0])
                /\ UNCHANGED <<db, catalog, rowLock>>
           ELSE \/ \E error \in StatementErrors : SettleThrow(p, request, error)
                \/ IF WagerCheck(in.wagerId) # ""
                   THEN SettleThrow(p, request, Error(WagerCheck(in.wagerId)))
                   ELSE /\ pc' = [pc EXCEPT ![p] = "settle_updateWager"]
                        /\ req' = [req EXCEPT ![p] = request]
                        /\ UNCHANGED <<db, catalog, rowLock, local, response>>

\* The switch on result with a bug: WON credits the profit without the stake.
balanceChangeProfitOnly(result, wager) ==
    CASE result = "WON" ->
           calculatePayout(wager.stakeCents, wager.acceptedPrice) - wager.stakeCents
      [] result \in {"PUSH", "VOID"} -> wager.stakeCents
      [] OTHER -> 0

\* The switch on result with a bug: PUSH and VOID refund stake plus profit.
balanceChangeRefundWithProfit(result, wager) ==
    CASE result = "LOST" -> 0
      [] OTHER -> calculatePayout(wager.stakeCents, wager.acceptedPrice)

\* The switch on result with a bug: WON pays at the price of the latest line
\* quoted for the market and selection of the wager's line.
balanceChangeFromLatestLine(result, wager) ==
    LET quotes == {l \in DOMAIN lines :
                     /\ lines[l].marketId = lines[wager.lineId].marketId
                     /\ lines[l].selectionKey = lines[wager.lineId].selectionKey}
        latest == CHOOSE l \in quotes :
                     \A k \in quotes : lines[k].capturedAt <= lines[l].capturedAt
    IN CASE result = "WON" -> calculatePayout(wager.stakeCents, lines[latest].price)
         [] result \in {"PUSH", "VOID"} -> wager.stakeCents
         [] OTHER -> 0

\* balanceChange of the switch on result.
balanceChange(result, wager) ==
    CASE result = "WON" -> calculatePayout(wager.stakeCents, wager.acceptedPrice)
      [] result \in {"PUSH", "VOID"} -> wager.stakeCents
      [] OTHER -> 0

\* The switch on result with a bug: LOST creates a ledger entry as well.
SettleEntryForEveryResult(p, result, wager) ==
    [id |-> p, userId |-> wager.userId, wagerId |-> wager.id,
     type |-> IF result \in {"WON", "LOST"} THEN "WAGER_PAYOUT" ELSE "WAGER_REFUND",
     amountCents |-> balanceChange(result, wager)]

\* The switch on result with a bug: the entry of WON records the stake, not
\* the payout that is credited.
SettleEntryOfStake(p, result, wager) ==
    IF result = "LOST"
    THEN NoEntry
    ELSE [id |-> p, userId |-> wager.userId, wagerId |-> wager.id,
          type |-> IF result = "WON" THEN "WAGER_PAYOUT" ELSE "WAGER_REFUND",
          amountCents |-> wager.stakeCents]

\* The row of tx.ledgerEntry.create of the switch on result; none for LOST.
SettleEntry(p, result, wager) ==
    IF result = "LOST"
    THEN NoEntry
    ELSE [id |-> p, userId |-> wager.userId, wagerId |-> wager.id,
          type |-> IF result = "WON" THEN "WAGER_PAYOUT" ELSE "WAGER_REFUND",
          amountCents |-> balanceChange(result, wager)]

\* The guard with a bug: a balance change of one cent is skipped.
UpdatesBalanceAboveOne(change) == change > 1

\* The guard of the balance update: if (balanceChange > 0).
UpdatesBalance(change) == change > 0

\* tx.wager.update, data: { status: result }, where: { id }.  The UPDATE
\* waits for the row lock; at ReadCommitted it then applies to the latest
\* committed version of the row, whatever its status has become.  The
\* switch on result follows: tx.ledgerEntry.create for WON, PUSH and VOID (a
\* row private to the transaction); an amount that is no integer (the
\* payout at odds 0) is rejected and the create throws.
SettleUpdateWager(p) ==
    /\ pc[p] = "settle_updateWager"
    /\ UNCHANGED calc
    /\ ~WagerLockedByOther(p, req[p].wagerId)
    /\ LET wager == [wagers[req[p].wagerId] EXCEPT !.status = req[p].result]
           change == balanceChange(req[p].result, wager)
       IN IF change = Infinity
          THEN SettleThrow(p, req[p], Error("Invalid value provided for amountCents"))
          ELSE /\ rowLock' = rowLock \cup {WagerLock(p, req[p].wagerId)}
               /\ local' = [local EXCEPT
                              ![p].wager = wager,
                              ![p].balanceChange = change,
                              ![p].ledgerEntry = SettleEntry(p, req[p].result, wager)]
               /\ pc' = [pc EXCEPT ![p] =
                           IF UpdatesBalance(change) THEN "settle_updateUser"
                           ELSE "settle_commit"]
               /\ UNCHANGED <<db, catalog, req, response>>

\* tx.user.update, balanceCents: { increment: balanceChange }.
SettleUpdateUser(p) ==
    /\ pc[p] = "settle_updateUser"
    /\ UNCHANGED calc
    /\ ~UserLockedByOther(p, local[p].wager.userId)
    /\ rowLock' = rowLock \cup {UserLock(p, local[p].wager.userId)}
    /\ local' = [local EXCEPT ![p].updatedUser = local[p].wager.userId,
                              ![p].balanceDelta = local[p].balanceChange]
    /\ pc' = [pc EXCEPT ![p] = "settle_commit"]
    /\ UNCHANGED <<db, catalog, req, response>>

\* The callback returns: the transaction commits and the handler answers
\* 200 with the balance change.
SettleCommit(p) ==
    /\ pc[p] = "settle_commit"
    /\ UNCHANGED calc
    /\ wagers' = [wagers EXCEPT ![req[p].wagerId] = local[p].wager]
    /\ ledger' = LedgerAfterCommit(p)
    /\ users' = ApplyBalance(p)
    /\ rowLock' = rowLock \ LocksOf(p)
    /\ Done(p, req[p],
            [http |-> 200, code |-> "OK",
             message |-> "Wager marked as " \o req[p].result \o " successfully",
             amountCents |-> local[p].balanceChange])
    /\ UNCHANGED catalog

\* A statement of the open transaction is rejected.
SettleFail(p) ==
    \E error \in StatementErrors :
        /\ pc[p] \in {"settle_updateWager", "settle_updateUser", "settle_commit"}
        /\ UNCHANGED calc
        /\ SettleThrow(p, req[p], error)

----------------------------------------------------------------------------
(* POST /api/odds/sync *)

mapMarketType(oddsApiMarketKey) ==
    CASE oddsApiMarketKey = "h2h" -> "MONEYLINE"
      [] oddsApiMarketKey = "spreads" -> "SPREAD"
      [] oddsApiMarketKey = "totals" -> "TOTAL"
      [] OTHER -> "null"

\* String.prototype.toLowerCase, on the letters A to Z.
UpperCaseLetters == "ABCDEFGHIJKLMNOPQRSTUVWXYZ"
LowerCaseLetters == "abcdefghijklmnopqrstuvwxyz"

LowerOf(c) ==
    IF \E i \in 1..Len(UpperCaseLetters) : SubSeq(UpperCaseLetters, i, i) = c
    THEN LET i == CHOOSE j \in 1..Len(UpperCaseLetters) : SubSeq(UpperCaseLetters, j, j) = c
         IN SubSeq(LowerCaseLetters, i, i)
    ELSE c

RECURSIVE toLowerCase(_)
toLowerCase(s) ==
    IF Len(s) = 0 THEN ""
    ELSE LowerOf(SubSeq(s, 1, 1)) \o toLowerCase(SubSeq(s, 2, Len(s)))

\* The selection of an outcome: for a total, OVER if the outcome's name in
\* lower case contains "over" and UNDER otherwise; for a moneyline or a
\* spread, the side of the team the outcome names; null otherwise.
mapSelectionKey(marketType, outcomeName, homeTeam, awayTeam) ==
    IF marketType = "TOTAL"
    THEN (IF Includes(toLowerCase(outcomeName), "over") THEN "OVER" ELSE "UNDER")
    ELSE IF marketType \in {"MONEYLINE", "SPREAD"} /\ outcomeName = homeTeam THEN "HOME"
    ELSE IF marketType \in {"MONEYLINE", "SPREAD"} /\ outcomeName = awayTeam THEN "AWAY"
    ELSE "null"

\* point: outcome.point ? new Decimal(outcome.point) : null -- a point of 0
\* is falsy and is stored as null.
linePoint(point) == IF point \in {"0", NoPoint} THEN NoPoint ELSE point

\* The row of tx.line.create for an outcome of the feed; the price is
\* Math.round(outcome.price).
NewLine(marketId, feed) ==
    [marketId |-> marketId,
     selectionKey |-> mapSelectionKey(mapMarketType(feed.marketKey), feed.outcomeName,
                                      feed.homeTeam, feed.awayTeam),
     point |-> linePoint(feed.point),
     price |-> MathRound(feed.priceTenths, 10),
     capturedAt |-> feed.lastUpdate]

\* The committed leagues tx.league.findFirst may return for the sport
\* title: with no orderBy, any league of that name.
LeaguesOf(sportTitle) == {l \in DOMAIN leagues : leagues[l].name = sportTitle}

\* The committed events tx.event.findFirst may return for the game (home
\* team, away team and start) in the league: with no orderBy, any of them.
EventsOfGame(game, leagueId) ==
    {e \in DOMAIN events :
        /\ events[e].homeTeam = game.homeTeam
        /\ events[e].awayTeam = game.awayTeam
        /\ events[e].startsAt = game.commenceTime
        /\ events[e].leagueId = leagueId}

\* The committed markets tx.market.findFirst may return for the event and
\* the type.
MarketsOf(eventId, marketType) ==
    {m \in DOMAIN markets :
        markets[m].eventId = eventId /\ markets[m].type = marketType}

\* The response of the catch block of the odds sync, whatever was thrown.
oddsSyncCatch ==
    [http |-> 500, code |-> "SYNC_ERROR", message |-> "Failed to synchronize odds data",
     amountCents |-> 0]

\* The response of a sync that went through.
oddsSyncOk ==
    [http |-> 200, code |-> "OK", message |-> "Odds data synchronized successfully",
     amountCents |-> 0]

\* syncRequestSchema: sport, markets, regions and oddsFormat are optional
\* strings; wellTyped says that each field given is a string.
syncRequestSchema(wellTyped) == wellTyped

\* The handler (its API key is configured) validates the body and awaits
\* the answer of the Odds API; a failed fetch throws and is answered 500
\* SYNC_ERROR.  With the answer in hand it opens the transaction.
OddsSync(p) ==
    \E wellTyped \in BOOLEAN :
        LET request == [NoRequest EXCEPT !.op = "oddsSync"] IN
        /\ Idle(p)
        /\ UNCHANGED <<calc, db, catalog, rowLock>>
        /\ IF ~syncRequestSchema(wellTyped)
           THEN Done(p, request, [http |-> 400, code |-> "INVALID_REQUEST",
                                  message |-> "Validation failed", amountCents |-> 0])
           ELSE \E feed \in FeedInputs :
                IF ~feed.ok
                THEN Done(p, request, oddsSyncCatch)
                ELSE /\ local' = [local EXCEPT ![p].feed = feed]
                     /\ pc' = [pc EXCEPT ![p] = "sync_findLeague"]
                     /\ req' = [req EXCEPT ![p] = request]
                     /\ UNCHANGED response

\* findOrCreateLeague: tx.league.findFirst reads the committed leagues of
\* the sport title.  When it finds none the transaction creates the league,
\* a row private to it until the commit, and then the game's event and the
\* event's market, since its lookups for a league and an event that no
\* other transaction can see find nothing.
OddsSyncFindLeague(p) ==
    /\ pc[p] = "sync_findLeague"
    /\ UNCHANGED <<calc, db, catalog, rowLock, req, response>>
    /\ IF LeaguesOf(local[p].feed.sportTitle) = {}
       THEN /\ pc' = [pc EXCEPT ![p] = "sync_commit"]
            /\ UNCHANGED local
       ELSE \E league \in LeaguesOf(local[p].feed.sportTitle) :
                /\ local' = [local EXCEPT ![p].league = league]
                /\ pc' = [pc EXCEPT ![p] = "sync_findEvent"]

\* tx.event.findFirst reads the committed events of the game in the league
\* found.  When it finds none the transaction creates the event, and then
\* the event's market.
OddsSyncFindEvent(p) ==
    /\ pc[p] = "sync_findEvent"
    /\ UNCHANGED <<calc, db, catalog, rowLock, req, response>>
    /\ IF EventsOfGame(local[p].feed, local[p].league) = {}
       THEN /\ pc' = [pc EXCEPT ![p] = "sync_commit"]
            /\ UNCHANGED local
       ELSE \E event \in EventsOfGame(local[p].feed, local[p].league) :
                /\ local' = [local EXCEPT ![p].event = event]
                /\ pc' = [pc EXCEPT ![p] = "sync_findMarket"]

\* tx.market.findFirst reads the committed markets of the event found, for
\* a market key that maps to a type; a key that maps to none is skipped.
OddsSyncFindMarket(p) ==
    LET marketType == mapMarketType(local[p].feed.marketKey) IN
    /\ pc[p] = "sync_findMarket"
    /\ UNCHANGED <<calc, db, catalog, rowLock, req, response>>
    /\ pc' = [pc EXCEPT ![p] = "sync_commit"]
    /\ IF marketType = "null" \/ MarketsOf(local[p].event, marketType) = {}
       THEN UNCHANGED local
       ELSE \E market \in MarketsOf(local[p].event, marketType) :
                local' = [local EXCEPT ![p].market = market]

\* The callback returns and the transaction commits: the league, the event
\* and the market it created, if any, and the line are inserted; no row is
\* updated.  A market key that maps to no type gets no market and no line,
\* an outcome that maps to no selection gets no line.
OddsSyncCommit(p) ==
    /\ pc[p] = "sync_commit"
    /\ UNCHANGED calc
    /\ LET feed == local[p].feed
           marketType == mapMarketType(feed.marketKey)
           selectionKey == mapSelectionKey(marketType, feed.outcomeName,
                                           feed.homeTeam, feed.awayTeam)
           leagueId == IF local[p].league # "" THEN local[p].league
                       ELSE "league" \o ToString(Cardinality(DOMAIN leagues) + 1)
           eventId == IF local[p].event # "" THEN local[p].event
                      ELSE "event" \o ToString(Cardinality(DOMAIN events) + 1)
           marketId == IF local[p].market # "" THEN local[p].market
                       ELSE "market" \o ToString(Cardinality(DOMAIN markets) + 1)
           lineId == "line" \o ToString(Cardinality(DOMAIN lines) + 1)
       IN /\ leagues' = IF local[p].league # "" THEN leagues
                        ELSE leagues @@ (leagueId :> [name |-> feed.sportTitle])
          /\ events' = IF local[p].event # "" THEN events
                       ELSE events @@ (eventId :> [leagueId |-> leagueId,
                                                   homeTeam |-> feed.homeTeam,
                                                   awayTeam |-> feed.awayTeam,
                                                   startsAt |-> feed.commenceTime,
                                                   status |-> "SCHEDULED"])
          /\ markets' = IF local[p].market # "" \/ marketType = "null" THEN markets
                        ELSE markets @@ (marketId :> [eventId |-> eventId,
                                                      type |-> marketType])
          /\ lines' = IF marketType = "null" \/ selectionKey = "null" THEN lines
                      ELSE lines @@ (lineId :> NewLine(marketId, feed))
    /\ Done(p, req[p], oddsSyncOk)
    /\ UNCHANGED <<db, rowLock>>

\* The statements of the odds sync's transaction.
SyncStatements == {"sync_findLeague", "sync_findEvent", "sync_findMarket", "sync_commit"}

\* A statement of the open transaction is rejected: nothing is committed.
\* The catch block inside the loop over the games swallows the error and
\* the callback returns; the commit then either fails, which is answered
\* 500 SYNC_ERROR, or ends the aborted transaction without an error, which
\* is answered 200.
OddsSyncFail(p) ==
    \E r \in {oddsSyncCatch, oddsSyncOk} :
        /\ pc[p] \in SyncStatements
        /\ UNCHANGED calc
        /\ Rollback(p)
        /\ Done(p, req[p], r)

----------------------------------------------------------------------------

Next ==
    \/ \E p \in Procs : CreateUser(p)
    \/ \E p \in Procs : OddsSync(p)
    \/ \E p \in Procs : OddsSyncFindLeague(p)
    \/ \E p \in Procs : OddsSyncFindEvent(p)
    \/ \E p \in Procs : OddsSyncFindMarket(p)
    \/ \E p \in Procs : OddsSyncCommit(p)
    \/ \E p \in Procs : OddsSyncFail(p)
    \/ \E p \in Procs : PlaceStart(p)
    \/ \E p \in Procs : PlaceFindUser(p)
    \/ \E p \in Procs : PlaceUpdateUser(p)
    \/ \E p \in Procs : PlaceCommit(p)
    \/ \E p \in Procs : PlaceFail(p)
    \/ \E p \in Procs : SettleStart(p)
    \/ \E p \in Procs : SettleUpdateWager(p)
    \/ \E p \in Procs : SettleUpdateUser(p)
    \/ \E p \in Procs : SettleCommit(p)
    \/ \E p \in Procs : SettleFail(p)

Spec == Init /\ [][Next]_vars

----------------------------------------------------------------------------
(* Wagering on the catalog of a first odds sync *)

\* The database once the first odds sync has committed the first quote of
\* the game: the seeded users, the league, the event, its spreads market
\* and the line of the home team at -110 with the point -3.5; no wager, no
\* ledger entry and no request in flight.
WagerInit ==
    /\ users = [u \in SeedUserIds |-> [balanceCents |-> SeedBalanceCents]]
    /\ wagers = <<>>
    /\ ledger = {}
    /\ leagues = ("league1" :> [name |-> Quote(0).sportTitle])
    /\ events = ("event1" :> [leagueId |-> "league1", homeTeam |-> Quote(0).homeTeam,
                              awayTeam |-> Quote(0).awayTeam,
                              startsAt |-> Quote(0).commenceTime,
                              status |-> "SCHEDULED"])
    /\ markets = ("market1" :> [eventId |-> "event1",
                                type |-> mapMarketType(Quote(0).marketKey)])
    /\ lines = ("line1" :> NewLine("market1", Quote(0)))
    /\ rowLock = {}
    /\ pc = [p \in Procs |-> "idle"]
    /\ req = [p \in Procs |-> NoRequest]
    /\ local = [p \in Procs |-> NoLocal]
    /\ response = [p \in Procs |-> NoResponse]
    /\ calc = NoCalc

WagerProcs == 1..MaxWagerCalls

\* The calls of placeWager and settleWager and the odds syncs that follow.
WagerNext ==
    \/ \E p \in WagerProcs : OddsSync(p)
    \/ \E p \in WagerProcs : OddsSyncFindLeague(p)
    \/ \E p \in WagerProcs : OddsSyncFindEvent(p)
    \/ \E p \in WagerProcs : OddsSyncFindMarket(p)
    \/ \E p \in WagerProcs : OddsSyncCommit(p)
    \/ \E p \in WagerProcs : OddsSyncFail(p)
    \/ \E p \in WagerProcs : PlaceStart(p)
    \/ \E p \in WagerProcs : PlaceFindUser(p)
    \/ \E p \in WagerProcs : PlaceUpdateUser(p)
    \/ \E p \in WagerProcs : PlaceCommit(p)
    \/ \E p \in WagerProcs : PlaceFail(p)
    \/ \E p \in WagerProcs : SettleStart(p)
    \/ \E p \in WagerProcs : SettleUpdateWager(p)
    \/ \E p \in WagerProcs : SettleUpdateUser(p)
    \/ \E p \in WagerProcs : SettleCommit(p)
    \/ \E p \in WagerProcs : SettleFail(p)

WagerSpec == WagerInit /\ [][WagerNext]_vars

\* A statement of an open transaction or of a handler under way runs: the
\* database executes a statement that waits for no row lock, and the
\* handler awaits each statement in turn.
Progress ==
    \E p \in Procs :
        \/ PlaceFindUser(p) \/ PlaceUpdateUser(p) \/ PlaceCommit(p)
        \/ SettleUpdateWager(p) \/ SettleUpdateUser(p) \/ SettleCommit(p)
        \/ OddsSyncFindLeague(p) \/ OddsSyncFindEvent(p) \/ OddsSyncFindMarket(p)
        \/ OddsSyncCommit(p)

\* The calls whose transactions take row locks: placeWager and settleWager.
\* The odds sync only inserts rows and waits for no lock.
LockNext ==
    \/ \E p \in WagerProcs : PlaceStart(p)
    \/ \E p \in WagerProcs : PlaceFindUser(p)
    \/ \E p \in WagerProcs : PlaceUpdateUser(p)
    \/ \E p \in WagerProcs : PlaceCommit(p)
    \/ \E p \in WagerProcs : PlaceFail(p)
    \/ \E p \in WagerProcs : SettleStart(p)
    \/ \E p \in WagerProcs : SettleUpdateWager(p)
    \/ \E p \in WagerProcs : SettleUpdateUser(p)
    \/ \E p \in WagerProcs : SettleCommit(p)
    \/ \E p \in WagerProcs : SettleFail(p)

\* The calls of placeWager and settleWager under a server and a database
\* that keep running.
FairSpec == WagerInit /\ [][LockNext]_vars /\ WF_vars(Progress)

----------------------------------------------------------------------------
(* placeWager on a catalog with events that are under way or over *)

\* The odds sync creates every event as SCHEDULED and no route writes
\* Event.status again: an event becomes LIVE or FINAL (the other values of
\* the EventStatus enum) by an update made on the table.  GradedInit is the
\* seeded database with the catalog of three games of one league, each
\* with its spreads market and one line: the first is SCHEDULED, the second
\* is FINAL and the third is LIVE; no request in flight.
GradedInit ==
    /\ users = [u \in SeedUserIds |-> [balanceCents |-> SeedBalanceCents]]
    /\ wagers = <<>>
    /\ ledger = {}
    /\ leagues = ("league1" :> [name |-> "NFL"])
    /\ events = ("event1" :> [leagueId |-> "league1", homeTeam |-> "Chiefs",
                              awayTeam |-> "Bills", startsAt |-> 600000,
                              status |-> "SCHEDULED"])
                 @@ ("event2" :> [leagueId |-> "league1", homeTeam |-> "Eagles",
                                  awayTeam |-> "Cowboys", startsAt |-> 600000,
                                  status |-> "FINAL"])
                 @@ ("event3" :> [leagueId |-> "league1", homeTeam |-> "Lions",
                                  awayTeam |-> "Bears", startsAt |-> 600000,
                                  status |-> "LIVE"])
    /\ markets = [m \in {"market1", "market2", "market3"} |->
                    [eventId |-> CASE m = "market1" -> "event1"
                                   [] m = "market2" -> "event2"
                                   [] m = "market3" -> "event3",
                     type |-> "SPREAD"]]
    /\ lines = [l \in {"line1", "line2", "line3"} |->
                  NewLine(CASE l = "line1" -> "market1"
                            [] l = "line2" -> "market2"
                            [] l = "line3" -> "market3",
                          Quote(0))]
    /\ rowLock = {}
    /\ pc = [p \in Procs |-> "idle"]
    /\ req = [p \in Procs |-> NoRequest]
    /\ local = [p \in Procs |-> NoLocal]
    /\ response = [p \in Procs |-> NoResponse]
    /\ calc = NoCalc

GradedProcs == 1..MaxGradedCalls

PlaceNext ==
    \/ \E p \in GradedProcs : PlaceStart(p)
    \/ \E p \in GradedProcs : PlaceFindUser(p)
    \/ \E p \in GradedProcs : PlaceUpdateUser(p)
    \/ \E p \in GradedProcs : PlaceCommit(p)
    \/ \E p \in GradedProcs : PlaceFail(p)

\* The calls of placeWager on that catalog.
GradedSpec == GradedInit /\ [][PlaceNext]_vars

----------------------------------------------------------------------------
(* Properties *)

IsPlace(p) == req[p].op = "placeWager"
IsSettle(p) == req[p].op = "settleWager"

\* The call has completed with a success response.
Succeeded(p) == pc[p] = "done" /\ response[p].code = "OK"

\* The step completes call p with a success response.
Succeeds(p) == pc[p] # "done" /\ pc'[p] = "done" /\ response'[p].code = "OK"

\* The step is the arrival of a request of the given operation in slot p.
Arrives(p, op) == pc[p] = "idle" /\ pc'[p] # "idle" /\ req'[p].op = op

RECURSIVE SumAmounts(_)
SumAmounts(S) ==
    IF S = {} THEN 0
    ELSE LET e == CHOOSE x \in S : TRUE
         IN e.amountCents + SumAmounts(S \ {e})

\* Sum of amountCents over the committed ledger entries owned by user u.
LedgerSum(u) == SumAmounts({e \in ledger : e.userId = u})

\* The payout and refund entries that reference wager w.
CreditEntries(w) ==
    {e \in ledger : e.wagerId = w /\ e.type \in {"WAGER_PAYOUT", "WAGER_REFUND"}}

\* The WAGER_STAKE entries that reference wager w.
StakeEntries(w) == {e \in ledger : e.wagerId = w /\ e.type = "WAGER_STAKE"}

\* C1: every user's balanceCents equals the sum of amountCents over the
\* ledger entries the user owns, in every reachable state.
C1_BalanceEqualsLedgerSum ==
    \A u \in DOMAIN users : users[u].balanceCents = LedgerSum(u)

\* C2: at most one WAGER_PAYOUT or WAGER_REFUND ledger entry references any
\* wager, for every interleaving of settleWager calls.
C2_AtMostOneCreditEntry ==
    \A w \in DOMAIN wagers : Cardinality(CreditEntries(w)) <= 1

\* C3: of two settleWager calls with different outcomes that run concurrently
\* on a PENDING wager, exactly one succeeds and applies its outcome: no
\* settleWager call completes successfully on a wager to which another
\* call has already applied a different outcome.
C3_ExactlyOneOutcomeApplied ==
    [][\A p \in Procs :
         (IsSettle(p) /\ Succeeds(p))
         => wagers[req[p].wagerId].status \in {"PENDING", req[p].result}]_vars

\* C4: a settleWager call, with any of the four outcomes, that arrives when
\* the wager's committed status is terminal (an earlier settleWager has
\* completed successfully) and whose read of the wager the database does not
\* reject fails with WAGER_ALREADY_SETTLED (409) carrying that status, and
\* leaves every wager, ledger entry and balance unchanged.
C4_LaterSettleIsRejected ==
    [][\A p \in Procs :
         ( /\ Arrives(p, "settleWager")
           /\ markResultSchema(req'[p].result)
           /\ req'[p].wagerId \in DOMAIN wagers
           /\ wagers[req'[p].wagerId].status \in TerminalStatuses
           /\ response'[p].code # "BUSINESS_LOGIC_ERROR" )
         => /\ pc'[p] = "done"
            /\ response'[p].http = 409
            /\ response'[p].code = "WAGER_ALREADY_SETTLED"
            /\ response'[p].message =
                 AlreadySettledMessage(wagers[req'[p].wagerId].status)
            /\ UNCHANGED <<users, wagers, ledger>>]_vars

\* C4 witness: WON was settled a second time on a wager settled WON; the call
\* was rejected with the status WON and exactly one payout entry exists.
C4_Witness ==
    \E q \in Procs :
        /\ IsSettle(q) /\ req[q].result = "WON"
        /\ pc[q] = "done"
        /\ response[q].code = "WAGER_ALREADY_SETTLED"
        /\ response[q].message = AlreadySettledMessage("WON")
        /\ wagers[req[q].wagerId].status = "WON"
        /\ Cardinality(CreditEntries(req[q].wagerId)) = 1
        /\ \A e \in CreditEntries(req[q].wagerId) : e.type = "WAGER_PAYOUT"

\* C5: once a wager's status is WON, LOST, PUSH or VOID, no step changes it.
C5_TerminalStatusNeverChanges ==
    [][\A w \in DOMAIN wagers :
         wagers[w].status \in TerminalStatuses
         => wagers'[w].status = wagers[w].status]_vars

\* C6: in every step each user's balance changes by exactly the sum of the
\* amounts of the ledger entries the step adds for that user, so that the
\* difference between balance and ledger sum never changes.
C6_BalanceMovesWithLedger ==
    [][\A u \in DOMAIN users :
         users'[u].balanceCents - users[u].balanceCents
           = LedgerSum(u)' - LedgerSum(u)]_vars

\* C6 witness: a wager of 5000 at -110 was placed and settled WON: the
\* balance and the ledger sum of its owner have both moved by -5000 + 9545,
\* and their difference is the seeded balance.
C6_Witness ==
    \E p \in Procs :
        /\ IsSettle(p) /\ req[p].result = "WON" /\ Succeeded(p)
        /\ LedgerSum("adit") = 4545
        /\ users["adit"].balanceCents - LedgerSum("adit") = SeedBalanceCents

\* C7: a placeWager(userId, lineId, stakeCents) call that completes
\* successfully creates exactly one wager (PENDING, the given stake, the
\* line's price and point), creates exactly one WAGER_STAKE entry of
\* -stakeCents for that user and wager, decrements that user's balance by
\* exactly stakeCents, and changes no other wager, entry, line or user.
C7_PlaceWagerEffects ==
    [][\A p \in Procs :
         (IsPlace(p) /\ req[p].userId # NoUserId /\ Succeeds(p))
         => /\ p \notin DOMAIN wagers
            /\ wagers' = wagers @@
                 (p :> [id |-> p,
                        userId |-> req[p].userId,
                        lineId |-> req[p].lineId,
                        stakeCents |-> req[p].stakeCents,
                        acceptedPoint |-> lines[req[p].lineId].point,
                        acceptedPrice |-> lines[req[p].lineId].price,
                        status |-> "PENDING"])
            /\ \A e \in ledger : e.id # p
            /\ ledger' = ledger \cup
                 {[id |-> p, userId |-> req[p].userId, wagerId |-> p,
                   type |-> "WAGER_STAKE", amountCents |-> -req[p].stakeCents]}
            /\ users' = [users EXCEPT
                           ![req[p].userId].balanceCents = @ - req[p].stakeCents]
            /\ UNCHANGED catalog]_vars

\* C7 witness: a placeWager call with a user id has completed successfully.
C7_Witness ==
    \E p \in Procs :
        /\ IsPlace(p) /\ req[p].userId # NoUserId /\ Succeeded(p)
        /\ p \in DOMAIN wagers
        /\ wagers[p].status = "PENDING"

\* C8: every step that commits a WAGER_STAKE entry is the commit of a
\* placeWager call that named the entry's owner (so that the owner's balance
\* was checked) and decrements that owner's balance by the stake; and no
\* step changes a balance without adding a ledger entry of the same amount
\* for that user.
C8_StakeEntryHasBalanceUpdate ==
    [][/\ \A e \in ledger' \ ledger :
            e.type = "WAGER_STAKE"
            => /\ \E p \in Procs :
                    IsPlace(p) /\ Succeeds(p) /\ e.id = p /\ req[p].userId = e.userId
               /\ users'[e.userId].balanceCents
                    = users[e.userId].balanceCents + e.amountCents
       /\ \A u \in DOMAIN users :
            users'[u].balanceCents # users[u].balanceCents
            => \E e \in ledger' \ ledger :
                   /\ e.userId = u
                   /\ e.amountCents = users'[u].balanceCents - users[u].balanceCents]_vars

\* C8 witness: a request that names no user, on a line open for betting, was
\* refused and has left no wager and no entry, while the stake entry of a
\* request that named its user is committed with the balance decremented.
C8_Witness ==
    \E p \in Procs :
        /\ IsPlace(p) /\ req[p].userId = NoUserId /\ pc[p] = "done"
        /\ req[p].lineId \in DOMAIN lines
        /\ response[p].code = "INTERNAL_ERROR"
        /\ p \notin DOMAIN wagers
        /\ \A e \in ledger : e.id # p /\ e.userId # DEFAULT_USER_ID
        /\ \E e \in ledger : e.type = "WAGER_STAKE" /\ e.userId = "adit"
        /\ users["adit"].balanceCents = SeedBalanceCents - 5000

\* C9: every step of a placeWager or settleWager call other than its
\* successful completion, and so every step that completes it with an
\* error, leaves all wagers, ledger entries and balances as they were, and a
\* call that has failed holds no row lock.
C9_FailedCallChangesNothing ==
    [][\A p \in Procs :
         (pc'[p] # pc[p] /\ ~Succeeds(p))
         => /\ UNCHANGED <<users, wagers, ledger>>
            /\ (pc'[p] = "done" => \A k \in rowLock' : k.tx # p)]_vars

\* C9 witness: a settleWager call on a PENDING wager failed on a statement of
\* its transaction; the wager is still PENDING and has its stake entry only.
C9_Witness ==
    \E p \in Procs :
        /\ IsSettle(p) /\ pc[p] = "done"
        /\ response[p].code = "BUSINESS_LOGIC_ERROR"
        /\ req[p].wagerId \in DOMAIN wagers
        /\ wagers[req[p].wagerId].status = "PENDING"
        /\ CreditEntries(req[p].wagerId) = {}
        /\ Cardinality(StakeEntries(req[p].wagerId)) = 1
        /\ users["adit"].balanceCents = SeedBalanceCents - 5000

\* C10: when placeWager reads the user (and the database does not reject
\* the statement), an id that matches no user fails with USER_NOT_FOUND
\* (404), a balance below stakeCents fails with INSUFFICIENT_BALANCE (400),
\* and a balance equal to or above stakeCents is accepted; the commit of a
\* wager whose stake equals the balance leaves the balance at 0.
C10_BalanceCheck ==
    [][\A p \in Procs :
         /\ ( /\ pc[p] = "place_findUser" /\ pc'[p] # "place_findUser"
              /\ response'[p].code # "INTERNAL_ERROR" )
            => IF req[p].userId \notin DOMAIN users
               THEN /\ pc'[p] = "done"
                    /\ response'[p].http = 404
                    /\ response'[p].code = "USER_NOT_FOUND"
               ELSE IF users[req[p].userId].balanceCents < req[p].stakeCents
               THEN /\ pc'[p] = "done"
                    /\ response'[p].http = 400
                    /\ response'[p].code = "INSUFFICIENT_BALANCE"
               ELSE pc'[p] = "place_updateUser"
         /\ ( /\ IsPlace(p) /\ req[p].userId \in DOMAIN users /\ Succeeds(p)
              /\ users[req[p].userId].balanceCents = req[p].stakeCents )
            => users'[req[p].userId].balanceCents = 0]_vars

\* C10 witness: a wager whose stake equalled the balance was accepted and the
\* balance is 0, and the next placeWager call of the user was refused for
\* its balance.
C10_Witness ==
    \E p \in Procs, q \in Procs :
        /\ p \in DOMAIN wagers
        /\ wagers[p].userId = "adit" /\ wagers[p].stakeCents = SeedBalanceCents
        /\ users["adit"].balanceCents = 0
        /\ IsPlace(q) /\ pc[q] = "done" /\ req[q].userId = "adit"
        /\ response[q].code = "INSUFFICIENT_BALANCE"

\* C11: a valid placeWager request on a line whose parent event is LIVE or
\* FINAL fails with BETTING_CLOSED (400), unless the database rejects the
\* read of the line, whatever the clock reading, the stake and the balance
\* of the user, and leaves every wager, ledger entry and balance unchanged.
C11_ClosedEventRejected ==
    [][\A p \in Procs :
         ( /\ Arrives(p, "placeWager")
           /\ createWagerSchema(req'[p].stakeCents)
           /\ req'[p].lineId \in DOMAIN lines
           /\ EventOfLine(req'[p].lineId).status \in {"LIVE", "FINAL"}
           /\ response'[p].code # "INTERNAL_ERROR" )
         => /\ pc'[p] = "done"
            /\ response'[p].http = 400
            /\ response'[p].code = "BETTING_CLOSED"
            /\ UNCHANGED <<users, wagers, ledger>>]_vars

\* C11 witness: a placeWager call on the line of the LIVE event, with a stake
\* the balance covers, was refused with BETTING_CLOSED and has no wager and
\* no ledger entry.
C11_Witness ==
    \E p \in Procs :
        /\ IsPlace(p) /\ pc[p] = "done" /\ response[p].code = "BETTING_CLOSED"
        /\ EventOfLine(req[p].lineId).status = "LIVE"
        /\ req[p].stakeCents <= users[req[p].userId].balanceCents
        /\ p \notin DOMAIN wagers
        /\ \A e \in ledger : e.id # p

\* C12: a placeWager call passes the start-time check only if the event
\* starts more than 5 minutes after the clock reading of the call: with 4
\* minutes or exactly 5 minutes remaining, or with the start already past, it
\* does not go on to create a wager.
C12_AcceptedOnlyBeyondBuffer ==
    [][\A p \in Procs :
         (pc[p] = "idle" /\ pc'[p] = "place_findUser")
         => EventOfLine(req'[p].lineId).startsAt - local'[p].now
              > BufferMinutes * MsPerMinute]_vars

\* The step completes successfully a settleWager call with the given result
\* on a wager whose committed status is PENDING.
SettlesPending(p, result) ==
    /\ IsSettle(p) /\ req[p].result = result /\ Succeeds(p)
    /\ wagers[req[p].wagerId].status = "PENDING"

\* The step adds exactly one ledger entry: for the owner of wager w, referring
\* to w, of the given type and amount; and it adds the amount to the owner's
\* balance and changes no other balance.
CreditsOwner(w, type, amountCents) ==
    /\ ledger \subseteq ledger'
    /\ \E e \in ledger' :
         /\ ledger' \ ledger = {e}
         /\ e.userId = w.userId /\ e.wagerId = w.id
         /\ e.type = type /\ e.amountCents = amountCents
    /\ users' = [users EXCEPT ![w.userId].balanceCents = @ + amountCents]

\* C13: settleWager(w, WON) on a PENDING wager sets the wager's status to WON
\* and changes nothing else of any wager, creates exactly one WAGER_PAYOUT
\* entry for the owner with amountCents = calculatePayout(stakeCents,
\* acceptedPrice), and increases the owner's balance by that amount; for a
\* stake of 5000 at -110 the amount is 9545.
C13_WonPaysOut ==
    [][\A p \in Procs :
         SettlesPending(p, "WON")
         => LET w == wagers[req[p].wagerId]
                payout == calculatePayout(w.stakeCents, w.acceptedPrice)
            IN /\ wagers' = [wagers EXCEPT ![w.id].status = "WON"]
               /\ CreditsOwner(w, "WAGER_PAYOUT", payout)
               /\ (w.stakeCents = 5000 /\ w.acceptedPrice = -110) => payout = 9545]_vars

\* C13 witness: a wager of 5000 at -110 was settled WON; it has its stake
\* entry and one payout entry of 9545, and the owner's balance went from
\* 15000 to 24545.
C13_Witness ==
    \E p \in Procs :
        /\ IsSettle(p) /\ req[p].result = "WON" /\ Succeeded(p)
        /\ LET w == wagers[req[p].wagerId]
           IN /\ w.status = "WON" /\ w.stakeCents = 5000 /\ w.acceptedPrice = -110
              /\ {e.amountCents : e \in CreditEntries(w.id)} = {9545}
              /\ Cardinality({e \in ledger : e.wagerId = w.id}) = 2
        /\ Cardinality(DOMAIN wagers) = 1
        /\ users["adit"].balanceCents = 24545

\* C14: settleWager(w, LOST) on a PENDING wager sets the wager's status to
\* LOST and changes nothing else: no ledger entry is created, and no balance
\* and no other wager changes.
C14_LostChangesStatusOnly ==
    [][\A p \in Procs :
         SettlesPending(p, "LOST")
         => /\ wagers' = [wagers EXCEPT ![req[p].wagerId].status = "LOST"]
            /\ UNCHANGED <<users, ledger, catalog>>]_vars

\* C14 witness: a wager of 5000 was settled LOST; its stake entry is its
\* only ledger entry and the owner's balance is the post-acceptance 15000.
C14_Witness ==
    \E p \in Procs :
        /\ IsSettle(p) /\ req[p].result = "LOST" /\ Succeeded(p)
        /\ wagers[req[p].wagerId].status = "LOST"
        /\ wagers[req[p].wagerId].stakeCents = 5000
        /\ {e \in ledger : e.wagerId = req[p].wagerId} = StakeEntries(req[p].wagerId)
        /\ Cardinality(ledger) = 1
        /\ users["adit"].balanceCents = 15000

\* C15: settleWager(w, PUSH) and settleWager(w, VOID) on a PENDING wager set
\* the wager's status to PUSH or VOID respectively, create exactly one
\* WAGER_REFUND entry for the owner with amountCents = stakeCents, whatever
\* the accepted price, and increase the owner's balance by stakeCents.
C15_PushVoidRefundStake ==
    [][\A p \in Procs, result \in {"PUSH", "VOID"} :
         SettlesPending(p, result)
         => LET w == wagers[req[p].wagerId]
            IN /\ wagers' = [wagers EXCEPT ![w.id].status = result]
               /\ CreditsOwner(w, "WAGER_REFUND", w.stakeCents)]_vars

\* C15 witness: a wager of 5000 at -110 was settled PUSH; it has one refund
\* entry of 5000 and the owner's balance went from 15000 back to 20000.
C15_Witness ==
    \E p \in Procs :
        /\ IsSettle(p) /\ req[p].result = "PUSH" /\ Succeeded(p)
        /\ wagers[req[p].wagerId].status = "PUSH"
        /\ wagers[req[p].wagerId].acceptedPrice = -110
        /\ \E e \in ledger : /\ CreditEntries(req[p].wagerId) = {e}
                              /\ e.type = "WAGER_REFUND" /\ e.amountCents = 5000
        /\ Cardinality(DOMAIN wagers) = 1
        /\ users["adit"].balanceCents = 20000

\* r is n / d rounded to the nearest integer, halves up (d > 0):
\* r <= n/d + 1/2 < r + 1.
IsRoundHalfUp(r, n, d) == 2 * d * r <= 2 * n + d /\ 2 * n + d < 2 * d * (r + 1)

\* C16: for every stake >= 1 and every non-zero odds of the ranges,
\* calculatePayout returns stake + roundHalfUp(stake * odds / 100) for
\* positive odds and stake + roundHalfUp(stake * 100 / |odds|) for negative
\* odds; in particular (100, 150) gives 250, (110, -110) gives 210,
\* (50, -200) gives 75, (1, 100) gives 2 and (5000, -110) gives 9545.
C16_PayoutIsStakePlusRoundedProfit ==
    (calc.returned /\ calc.americanOdds # 0)
    => LET stake == calc.stakeCents
           odds == calc.americanOdds
           profit == calc.payout - stake
       IN /\ odds > 0 => IsRoundHalfUp(profit, stake * odds, 100)
          /\ odds < 0 => IsRoundHalfUp(profit, stake * 100, -odds)
          /\ (stake = 100 /\ odds = 150) => calc.payout = 250
          /\ (stake = 110 /\ odds = -110) => calc.payout = 210
          /\ (stake = 50 /\ odds = -200) => calc.payout = 75
          /\ (stake = 1 /\ odds = 100) => calc.payout = 2
          /\ (stake = 5000 /\ odds = -110) => calc.payout = 9545

\* C16 witness: a tie is rounded up: a stake of 1 at +150 has a profit of 1.5
\* and calculatePayout has returned 3.
C16_Witness ==
    /\ calc.returned
    /\ calc.stakeCents = 1 /\ calc.americanOdds = 150
    /\ calc.payout = 3

\* C17: calculatePayout never returns for odds of exactly 0: the call fails
\* with InvalidOdds instead of yielding a payout amount, for every stake.
C17_ZeroOddsNeverReturns ==
    calc.americanOdds = 0 => ~calc.returned

\* C18: a settleWager request whose outcome is none of WON, LOST, PUSH and
\* VOID (PENDING included) is rejected as invalid input (400) in the step it
\* arrives, before any transaction starts, and the wager's status, the
\* ledger and all balances stay as they were.
C18_InvalidOutcomeRejected ==
    [][\A p \in Procs :
         ( /\ Arrives(p, "settleWager")
           /\ req'[p].result \notin {"WON", "LOST", "PUSH", "VOID"} )
         => /\ pc'[p] = "done"
            /\ response'[p].http = 400
            /\ response'[p].code = "INVALID_REQUEST"
            /\ UNCHANGED <<users, wagers, ledger, rowLock>>]_vars

\* C18 witness: a settleWager call with the outcome PENDING on a committed
\* PENDING wager was rejected with INVALID_REQUEST; the wager is still
\* PENDING and has no payout or refund entry.
C18_Witness ==
    \E p \in Procs :
        /\ IsSettle(p) /\ req[p].result = "PENDING" /\ pc[p] = "done"
        /\ response[p].code = "INVALID_REQUEST"
        /\ req[p].wagerId \in DOMAIN wagers
        /\ wagers[req[p].wagerId].status = "PENDING"
        /\ CreditEntries(req[p].wagerId) = {}

\* The lines quoted for the market and selection of line lineId.
QuotesOf(lineId) ==
    {l \in DOMAIN lines :
        /\ lines[l].marketId = lines[lineId].marketId
        /\ lines[l].selectionKey = lines[lineId].selectionKey}

\* C19: no step changes the acceptedPrice or the acceptedPoint of a wager there
\* is, and every WAGER_PAYOUT entry a step adds has the amount
\* calculatePayout(stakeCents, acceptedPrice) of its wager, whatever lines
\* odds syncs have appended for the same market and selection since the
\* wager was placed.
C19_AcceptedTermsAreFrozen ==
    [][/\ \A w \in DOMAIN wagers :
            /\ w \in DOMAIN wagers'
            /\ wagers'[w].acceptedPrice = wagers[w].acceptedPrice
            /\ wagers'[w].acceptedPoint = wagers[w].acceptedPoint
       /\ \A e \in ledger' \ ledger :
            e.type = "WAGER_PAYOUT"
            => e.amountCents = calculatePayout(wagers[e.wagerId].stakeCents,
                                               wagers[e.wagerId].acceptedPrice)]_vars

\* C19 witness: after the wager on line1 (-110, point -3.5) was placed, an
\* odds sync appended a line for the same market and selection at another
\* price; the wager was then settled WON and paid 9545, and its accepted
\* price and point are those of line1 at placement.
C19_Witness ==
    \E p \in Procs, s \in Procs, w \in DOMAIN wagers :
        /\ w < s /\ s < p
        /\ pc[s] = "done"
        /\ \E l \in QuotesOf("line1") :
             /\ l = "line" \o ToString(Cardinality(DOMAIN lines))
             /\ l # "line1"
             /\ lines[l].capturedAt > lines["line1"].capturedAt
             /\ lines[l].price # -110
        /\ Cardinality(DOMAIN lines) = 2
        /\ IsSettle(p) /\ req[p].wagerId = w /\ req[p].result = "WON" /\ Succeeded(p)
        /\ wagers[w].lineId = "line1"
        /\ wagers[w].status = "WON"
        /\ wagers[w].acceptedPrice = -110
        /\ wagers[w].acceptedPoint = "-3.5"
        /\ {e.amountCents : e \in CreditEntries(w)} = {9545}

\* C20: every step keeps every ledger entry there is, with the same owner,
\* wager reference, type and amount.
C20_LedgerIsAppendOnly ==
    [][\A e \in ledger :
         \E f \in ledger' :
             /\ f.id = e.id /\ f.userId = e.userId /\ f.wagerId = e.wagerId
             /\ f.type = e.type /\ f.amountCents = e.amountCents]_vars

\* C20 witness: two wagers were placed and the first was settled WON; its
\* stake entry is in the ledger as it was, next to the stake entry of the
\* second wager and the payout entry.
C20_Witness ==
    \E v \in DOMAIN wagers, w \in DOMAIN wagers :
        /\ v < w
        /\ Cardinality(ledger) = 3
        /\ [id |-> v, userId |-> "adit", wagerId |-> v, type |-> "WAGER_STAKE",
            amountCents |-> -wagers[v].stakeCents] \in ledger
        /\ \E e \in ledger : e.type = "WAGER_PAYOUT" /\ e.wagerId = v /\ e.id > w
        /\ \E e \in ledger : e.type = "WAGER_STAKE" /\ e.wagerId = w

\* C21: acceptance precedes settlement: in every state each WAGER_PAYOUT or
\* WAGER_REFUND entry refers to a committed wager that has its WAGER_STAKE
\* entry, and a valid settleWager request that arrives when its wager is not
\* committed fails with WAGER_NOT_FOUND (404), unless the database rejects
\* the read of the wager, and changes nothing.
C21_AcceptancePrecedesSettlement ==
    /\ [](\A e \in ledger :
             e.type \in {"WAGER_PAYOUT", "WAGER_REFUND"}
             => e.wagerId \in DOMAIN wagers /\ StakeEntries(e.wagerId) # {})
    /\ [][\A p \in Procs :
            ( /\ Arrives(p, "settleWager")
              /\ req'[p].result \in TerminalStatuses
              /\ req'[p].wagerId \notin DOMAIN wagers )
            => /\ pc'[p] = "done"
               /\ response'[p].code # "BUSINESS_LOGIC_ERROR"
                    => response'[p].http = 404 /\ response'[p].code = "WAGER_NOT_FOUND"
               /\ UNCHANGED <<users, wagers, ledger>>]_vars

\* C21 witness: a settleWager call arrived while the placeWager call creating
\* its wager had created the wager and its stake entry but not committed,
\* and failed with WAGER_NOT_FOUND; no ledger entry refers to the wager.
C21_Witness ==
    \E p \in Procs, q \in Procs :
        /\ IsPlace(p) /\ pc[p] = "place_commit" /\ local[p].wager.id = p
        /\ IsSettle(q) /\ req[q].wagerId = p /\ req[q].result = "WON"
        /\ pc[q] = "done" /\ response[q].code = "WAGER_NOT_FOUND"
        /\ p \notin DOMAIN wagers
        /\ \A e \in ledger : e.wagerId # p

\* The balance a user starts with: a seeded user's, or that of a user
\* created with the default balance.
OpeningBalance(u) ==
    IF u \in SeedUserIds THEN SeedBalanceCents ELSE DefaultBalanceCents

RECURSIVE SumStakes(_)
SumStakes(W) ==
    IF W = {} THEN 0
    ELSE LET w == CHOOSE x \in W : TRUE
         IN wagers[w].stakeCents + SumStakes(W \ {w})

\* Sum of the stakes of the accepted wagers of user u.
AcceptedStakes(u) == SumStakes({w \in DOMAIN wagers : wagers[w].userId = u})

\* Sum of the payouts and refunds credited to user u.
Credits(u) ==
    SumAmounts({e \in ledger : e.userId = u /\ e.type \in {"WAGER_PAYOUT", "WAGER_REFUND"}})

\* C22: for every interleaving of placeWager and settleWager calls, each
\* user's balance equals the balance the user started with, minus the stakes
\* of all the user's accepted wagers, plus all payouts and refunds credited
\* to the user: no decrement and no increment is lost.
C22_NoLostBalanceUpdate ==
    \A u \in DOMAIN users :
        users[u].balanceCents = OpeningBalance(u) - AcceptedStakes(u) + Credits(u)

\* C22 witness: a placeWager call and a settleWager call of the same user on
\* different wagers run concurrently: the placement has updated the user
\* row and the settlement, having updated its wager row, waits for the user
\* row to credit the payout.
C22_Witness ==
    \E v \in DOMAIN wagers, w \in Procs, p \in Procs :
        /\ v # w
        /\ IsPlace(w) /\ pc[w] = "place_commit"
        /\ req[w].userId = wagers[v].userId
        /\ UserLock(w, req[w].userId) \in rowLock
        /\ IsSettle(p) /\ pc[p] = "settle_updateUser"
        /\ req[p].wagerId = v /\ req[p].result = "WON"
        /\ UserLockedByOther(p, wagers[v].userId)

\* C23: placeWager checks, in this order, that the line exists, that its
\* event is SCHEDULED, the start-time buffer, that the user exists and that
\* the balance covers the stake, and reports the first check that fails
\* (unless the database rejects a statement): an unknown line gives
\* LINE_NOT_FOUND whatever the user, a closed event gives BETTING_CLOSED for
\* its status whatever the clock, the user and the balance, and
\* USER_NOT_FOUND or INSUFFICIENT_BALANCE is reported only after the three
\* checks on the line have passed, USER_NOT_FOUND first.
C23_FirstFailingCheckIsReported ==
    [][\A p \in Procs :
         /\ ( /\ Arrives(p, "placeWager")
              /\ createWagerSchema(req'[p].stakeCents)
              /\ response'[p].code # "INTERNAL_ERROR" )
            => IF req'[p].lineId \notin DOMAIN lines
               THEN /\ pc'[p] = "done"
                    /\ response'[p].http = 404
                    /\ response'[p].code = "LINE_NOT_FOUND"
               ELSE IF EventOfLine(req'[p].lineId).status # "SCHEDULED"
               THEN /\ pc'[p] = "done"
                    /\ response'[p].code = "BETTING_CLOSED"
                    /\ response'[p].message = "Event is no longer open for betting"
               ELSE pc'[p] = "done"
                    => /\ response'[p].code = "BETTING_CLOSED"
                       /\ response'[p].message = "Event starts too soon to place bets"
         /\ ( /\ IsPlace(p) /\ pc[p] # "done" /\ pc'[p] = "done"
              /\ response'[p].code \in {"USER_NOT_FOUND", "INSUFFICIENT_BALANCE"} )
            => /\ pc[p] = "place_findUser"
               /\ req[p].lineId \in DOMAIN lines
               /\ EventOfLine(req[p].lineId).status = "SCHEDULED"
               /\ EventOfLine(req[p].lineId).startsAt - local[p].now
                    >= BufferMinutes * MsPerMinute
               /\ response'[p].code = "USER_NOT_FOUND"
                    <=> req[p].userId \notin DOMAIN users]_vars

\* C23 witness: a request on the line of the FINAL event with a stake above
\* the user's balance was answered BETTING_CLOSED for the status of the
\* event.
C23_Witness ==
    \E q \in Procs :
        /\ IsPlace(q) /\ pc[q] = "done" /\ response[q].code = "BETTING_CLOSED"
        /\ response[q].message = "Event is no longer open for betting"
        /\ EventOfLine(req[q].lineId).status = "FINAL"
        /\ req[q].userId \in DOMAIN users
        /\ users[req[q].userId].balanceCents < req[q].stakeCents

\* C24: a placeWager call goes on to create a wager only from the most
\* recent line of its market and selection: when the call reads its line, no
\* line of the same market and selection has a greater capturedAt.
C24_OnlyLatestLineIsPriced ==
    [][\A p \in Procs :
         (pc[p] = "idle" /\ pc'[p] = "place_findUser")
         => \A l \in QuotesOf(req'[p].lineId) :
                lines[l].capturedAt <= lines[req'[p].lineId].capturedAt]_vars

\* C25: in every state no two events share home team, away team, start
\* and league (the league of the name) and no event has two markets of the
\* same type, whatever odds syncs have run, one after the other or
\* concurrently.
C25_EventsAndMarketsAreUnique ==
    /\ \A e \in DOMAIN events, f \in DOMAIN events :
         ( /\ events[e].homeTeam = events[f].homeTeam
           /\ events[e].awayTeam = events[f].awayTeam
           /\ events[e].startsAt = events[f].startsAt
           /\ leagues[events[e].leagueId].name = leagues[events[f].leagueId].name )
         => e = f
    /\ \A m \in DOMAIN markets, n \in DOMAIN markets :
         (markets[m].eventId = markets[n].eventId /\ markets[m].type = markets[n].type)
         => m = n

\* C26: no user's balanceCents is ever negative, for every interleaving of
\* placeWager calls of the same user.
C26_BalanceNeverNegative ==
    \A u \in DOMAIN users : users[u].balanceCents >= 0

\* The ledger entries of the given type that reference wager w.
EntriesOf(w, type) == {e \in ledger : e.wagerId = w /\ e.type = type}

\* C27: in every state each wager has exactly one WAGER_STAKE entry, of
\* -stakeCents; exactly one WAGER_PAYOUT entry if its status is WON and none
\* otherwise; exactly one WAGER_REFUND entry, of +stakeCents, if its status
\* is PUSH or VOID and none otherwise; and each of these entries is owned by
\* the wager's user.
C27_LedgerMatchesStatus ==
    \A w \in DOMAIN wagers :
        /\ Cardinality(EntriesOf(w, "WAGER_STAKE")) = 1
        /\ \A e \in EntriesOf(w, "WAGER_STAKE") : e.amountCents = -wagers[w].stakeCents
        /\ Cardinality(EntriesOf(w, "WAGER_PAYOUT"))
             = IF wagers[w].status = "WON" THEN 1 ELSE 0
        /\ Cardinality(EntriesOf(w, "WAGER_REFUND"))
             = IF wagers[w].status \in {"PUSH", "VOID"} THEN 1 ELSE 0
        /\ \A e \in EntriesOf(w, "WAGER_REFUND") : e.amountCents = wagers[w].stakeCents
        /\ \A e \in ledger : e.wagerId = w => e.userId = wagers[w].userId

\* C28: for every stake >= 1 and every non-zero accepted price of the ranges,
\* calculatePayout(stakeCents, acceptedPrice) >= stakeCents >= 1, so that
\* for each of WON, PUSH and VOID, the results for which settleWager creates
\* a ledger entry, the entry's amount is the balance change and the guard
\* balanceChange > 0 lets the balance update run.
C28_CreditEntryHasBalanceUpdate ==
    (calc.returned /\ calc.americanOdds # 0)
    => LET w == [NoWager EXCEPT !.id = 0, !.stakeCents = calc.stakeCents,
                               !.acceptedPrice = calc.americanOdds]
       IN /\ calc.stakeCents >= 1
          /\ calc.payout >= calc.stakeCents
          /\ \A result \in {"WON", "PUSH", "VOID"} :
               /\ SettleEntry(1, result, w) # NoEntry
               /\ SettleEntry(1, result, w).amountCents = balanceChange(result, w)
               /\ UpdatesBalance(balanceChange(result, w))
          /\ SettleEntry(1, "LOST", w) = NoEntry

\* C28 witness: the smallest payout: a stake of 1 at +40 has a profit of 0.4,
\* rounded to 0, and calculatePayout has returned 1, the stake.
C28_Witness ==
    /\ calc.returned
    /\ calc.stakeCents = 1 /\ calc.americanOdds = 40
    /\ calc.payout = 1

\* C29: for every stake >= 1 and every non-zero odds of the ranges, the copy
\* of calculatePayout in POST /api/wagers and the copy in GET /api/wagers
\* return the value that the copy used by settleWager returns, so that the
\* potentialPayoutCents reported equals the amount credited on WON.
C29_PayoutCopiesAgree ==
    (calc.returned /\ calc.americanOdds # 0)
    => /\ calc.payoutPost = calc.payout
       /\ calc.payoutGet = calc.payout
       /\ calc.payout = balanceChange("WON",
                           [NoWager EXCEPT !.stakeCents = calc.stakeCents,
                                           !.acceptedPrice = calc.americanOdds])

\* C29 witness: the three copies have returned 9545 for 5000 at -110.
C29_Witness ==
    /\ calc.returned
    /\ calc.stakeCents = 5000 /\ calc.americanOdds = -110
    /\ calc.payout = 9545 /\ calc.payoutPost = 9545 /\ calc.payoutGet = 9545

\* C30: every placeWager or settleWager call under way eventually completes
\* with a response: a call waiting for a user or wager row locked by another
\* transaction goes on once that transaction commits or rolls back, and no
\* cycle of waiting transactions arises.  A call that is done stays done, so
\* the calls under way at any time have all completed at the next time at
\* which no call is under way, and there always is such a time.
C30_EveryCallCompletes ==
    []<>(\A p \in Procs : pc[p] \in {"idle", "done"})

\* C30 witness: a settleWager call waits for the wager row while the
\* transaction that locked it goes on to update the user row.
C30_Witness ==
    \E p, q \in Procs :
        /\ p # q
        /\ pc[p] = "settle_updateWager"
        /\ WagerLockedByOther(p, req[p].wagerId)
        /\ WagerLock(q, req[p].wagerId) \in rowLock
        /\ pc[q] = "settle_updateUser"

====
